---------------------------- MODULE Spec2Model ----------------------------
(***************************************************************************)
(* Model of the latency-adjusted Roughtime querier (src/src/lib.rs) and of *)
(* its command-line variants src/src/main3.rs (Spec), src/src/main.rs and  *)
(* src/src/main2.rs (SpecMain), with sequential harnesses of parse_reply   *)
(* (SpecParse), of the aggregation (SpecAgg) and of build_packet           *)
(* (SpecBuild).                                                            *)
(*                                                                         *)
(* Times are instants/durations in nanoseconds (SystemTime and Duration    *)
(* carry nanoseconds); wire fields are little-endian byte sequences.       *)
(* SHA-512 is taken to be collision free: a digest is represented by the   *)
(* bytes that were hashed (tweak, operands), so two digests are equal      *)
(* exactly when their inputs are.  All numbers stay far below 2^31, so the *)
(* u32/u64/i128 widths of the source never wrap inside the model.          *)
(***************************************************************************)
EXTENDS Integers, Sequences, FiniteSets, TLC

VARIABLES
    variant,    \* "lib" (get_timestamp_custom), "main3", "main" or "main2" (their main)
    nonce,      \* the 64-byte padded nonce shared by both probes
    mainPc,     \* position of the coordinator thread
    mainRes,    \* what the coordinator returned
    pc,         \* pc[i]: position of probe thread i
    res,        \* res[i]: value probe thread i ended with (its JoinHandle's result)
    gateCount,  \* Barrier: threads arrived in the current generation
    gateGen,    \* Barrier: generation id
    localGen,   \* localGen[t]: generation read by thread t on arrival (0 = main)
    arrived,    \* arrived[t]: thread t has called gate.wait()
    sendCount,  \* sendCount[i]: datagrams probe i handed to send_to successfully
    recvCount,  \* recvCount[i]: calls of recv_from by probe i
    tSend,      \* tSend[i]: t_send_wall of probe i (ns since epoch)
    rtt,        \* rtt[i]: measured round trip of probe i (ns)
    reply,      \* reply[i]: datagram received by probe i
    pPc,        \* sequential harness of parse_reply: "call" or "done"
    pIn,        \* its arguments
    pOut,       \* its outcome
    aPc,        \* sequential harness of the aggregation: "call" or "done"
    aIn,        \* the two measurements it is given, and how they were taken
    aOut,       \* what it yields
    bPc,        \* bPc[i]: harness of build_packet, call i: "call" or "done"
    bHash,      \* the 32-byte hash whose padded nonce is built into a packet
    bOut        \* bOut[i]: the packet call i returned

vars == <<variant, nonce, mainPc, mainRes, pc, res, gateCount, gateGen, localGen,
          arrived, sendCount, recvCount, tSend, rtt, reply, pPc, pIn, pOut,
          aPc, aIn, aOut, bPc, bHash, bOut>>

coordVars == <<variant, nonce, mainPc, mainRes, pc, res, gateCount, gateGen,
               localGen, arrived, sendCount, recvCount, tSend, rtt, reply>>

parseVars == <<pPc, pIn, pOut>>

aggVars == <<aPc, aIn, aOut>>

buildVars == <<bPc, bHash, bOut>>

-----------------------------------------------------------------------------
(* Bounds of the model *)

\* Merkle paths of 0..MaxPathLen sibling digests are enumerated.
MaxPathLen == 2
\* Leaf indices 0..MaxIdx are enumerated.
MaxIdx == 2
\* Send instants and round trips are drawn from grids of 0..MaxTick steps.
MaxTick == 2

-----------------------------------------------------------------------------
(* Program constants *)

\* A barrier that counts the two workers only.
GateSizeWorkersOnly == 3 - 1
\* Barrier::new(3): two workers and the coordinator.
GateSize == 3
\* pad_nonce: v.resize(64, 0)
NonceLen == 64
\* hash: [u8; 32]
HashLen == 32
\* Duration::as_micros / Duration::from_micros: nanoseconds per microsecond.
NsPerUs == 1000
\* [..4] of the INDX and RADI fields, [..8] of MIDP.
U32Bytes == 4
U64Bytes == 8

Probes == {1, 2}
Threads == {0, 1, 2}
Hosts == <<"roughtime.cloudflare.com:2003", "time.cloudflare.com:2003">>

-----------------------------------------------------------------------------
(* Bytes *)

RECURSIVE from_le_bytes(_)
\* u32::from_le_bytes / u64::from_le_bytes: least significant byte first.
from_le_bytes(b) ==
    IF b = <<>> THEN 0 ELSE Head(b) + 256 * from_le_bytes(Tail(b))

RECURSIVE to_le_bytes(_, _)
\* The w-byte little-endian encoding a beacon writes for n.
to_le_bytes(n, w) ==
    IF w = 0 THEN <<>> ELSE <<n % 256>> \o to_le_bytes(n \div 256, w - 1)

Zeros(n) == [i \in 1..n |-> 0]

\* pad_nonce: hash.to_vec() resized to 64 bytes with zeros.
pad_nonce(hash) ==
    IF Len(hash) >= NonceLen THEN SubSeq(hash, 1, NonceLen)
    ELSE hash \o Zeros(NonceLen - Len(hash))

-----------------------------------------------------------------------------
(* Merkle tree (roughenough::merkle::MerkleTree::new_sha512_google) *)

\* SHA-512 of (leaf tweak 0x00, data).
hash_leaf(data) == <<0>> \o data
\* SHA-512 of (node tweak 0x01, left, right).
hash_nodes(left, right) == <<1, Len(left)>> \o left \o right

RECURSIVE root_from_hash(_, _, _)
root_from_hash(index, hash, paths) ==
    IF paths = <<>> THEN hash
    ELSE root_from_hash(index \div 2,
                        IF index % 2 = 0 THEN hash_nodes(hash, Head(paths))
                        ELSE hash_nodes(Head(paths), hash),
                        Tail(paths))

\* root_from_paths(index, data, paths): fold the sibling digests over the leaf,
\* the bits of index (least significant first) telling left from right.
root_from_paths(index, data, paths) == root_from_hash(index, hash_leaf(data), paths)

-----------------------------------------------------------------------------
(* Results *)

\* BeaconMeta / Probe stand-in of a thread that produced none.
NoMeta == [host |-> ""]

\* Ok(m)
Ok(m) == [kind |-> "Ok", err |-> [variant |-> "", io |-> ""], panic |-> "", meta |-> m]
\* Err(TimestampError::Io(e)); io is what the std::io::Error says:
\* "WouldBlock" (read timeout), "Os" (any other socket failure),
\* "Other" (rt_to_io / wrap: a roughenough decoding error).
ErrIo(io) == [kind |-> "Err", err |-> [variant |-> "Io", io |-> io], panic |-> "",
              meta |-> NoMeta]
\* Err(TimestampError::Join)
ErrJoin == [kind |-> "Err", err |-> [variant |-> "Join", io |-> ""], panic |-> "",
            meta |-> NoMeta]
\* The thread unwound; msg is the panic message.
Panic(msg) == [kind |-> "Panic", err |-> [variant |-> "", io |-> ""], panic |-> msg,
               meta |-> NoMeta]
\* No value yet.
None == [kind |-> "None", err |-> [variant |-> "", io |-> ""], panic |-> "",
         meta |-> NoMeta]

-----------------------------------------------------------------------------
(* parse_reply *)

OuterTags == {"SREP", "INDX", "PATH"}
SrepTags == {"RADI", "MIDP", "ROOT"}

\* A comparison whose outcome is not acted upon.
merkle_unchecked(root, claimed) == TRUE

\* assert_eq!(root, srep.get_field(Tag::ROOT).unwrap(), "Merkle path invalid")
merkle_assert(root, claimed) == root = claimed

\* srep.get_field(tag).unwrap()[..n]: the first n bytes; the slice panics when
\* the field is shorter than n and silently drops what follows the n-th byte.
slice_ok(field, n) == Len(field) >= n
slice_to(field, n) == SubSeq(field, 1, n)

\* Lines 164-176 of lib.rs (117-127 of main3.rs): decoding and the Merkle
\* check, in program order.  Ok carries the decoded radius and midpoint.
decode_reply(nonce_, buf) ==
    IF ~buf.outerOk THEN ErrIo("Other")
    ELSE IF "SREP" \notin buf.tags THEN Panic("unwrap on None")
    ELSE IF ~buf.srepOk THEN ErrIo("Other")
    ELSE IF "RADI" \notin buf.stags THEN Panic("unwrap on None")
    ELSE IF ~slice_ok(buf.RADI, U32Bytes) THEN Panic("slice index out of range")
    ELSE IF "MIDP" \notin buf.stags THEN Panic("unwrap on None")
    ELSE IF ~slice_ok(buf.MIDP, U64Bytes) THEN Panic("slice index out of range")
    ELSE IF "INDX" \notin buf.tags THEN Panic("unwrap on None")
    ELSE IF ~slice_ok(buf.INDX, U32Bytes) THEN Panic("slice index out of range")
    ELSE IF "PATH" \notin buf.tags THEN Panic("unwrap on None")
    ELSE IF "ROOT" \notin buf.stags THEN Panic("unwrap on None")
    ELSE IF ~merkle_assert(
                root_from_paths(from_le_bytes(slice_to(buf.INDX, U32Bytes)),
                                nonce_, buf.PATH),
                buf.ROOT)
         THEN Panic("Merkle path invalid")
    ELSE Ok([radius_us |-> from_le_bytes(slice_to(buf.RADI, U32Bytes)),
             mid_us |-> from_le_bytes(slice_to(buf.MIDP, U64Bytes))])

\* Duration::from_micros((rtt.as_micros() / 2) as u64)
half_rtt(rtt_) == ((rtt_ \div NsPerUs) \div 2) * NsPerUs

\* SystemTime::UNIX_EPOCH + Duration::from_micros(mid_us)
mid_wall(mid_us) == mid_us * NsPerUs

\* The Err arm without its minus sign.
offset_unsigned(mid_wall_, true_time) ==
    IF mid_wall_ >= true_time THEN (mid_wall_ - true_time) \div NsPerUs
    ELSE (true_time - mid_wall_) \div NsPerUs

\* mid_wall.duration_since(true_time): Ok(d) => d.as_micros(),
\* Err(e) => -(e.duration().as_micros())
offset_us(mid_wall_, true_time) ==
    IF mid_wall_ >= true_time THEN (mid_wall_ - true_time) \div NsPerUs
    ELSE -((true_time - mid_wall_) \div NsPerUs)

\* The uncertainty with the whole round trip in place of its half.
uncert_whole_rtt(radius_us, half) == radius_us + 2 * (half \div NsPerUs)

\* radius_us as i128 + half_rtt.as_micros() as i128
uncert_us(radius_us, half) == radius_us + half \div NsPerUs

\* lib.rs: parse_reply(host, nonce, buf, t_send_wall, rtt) -> Result<BeaconMeta, _>
\* (rtt_ms, the f64 rendering of rtt, is kept as the Duration itself).
parse_reply(host, nonce_, buf, t_send_wall, rtt_) ==
    LET d == decode_reply(nonce_, buf)
        true_time == t_send_wall + half_rtt(rtt_)
    IN  IF d.kind # "Ok" THEN d
        ELSE Ok([host |-> host,
                 rtt |-> rtt_,
                 true_time |-> true_time,
                 offset_us |-> offset_us(mid_wall(d.meta.mid_us), true_time),
                 uncert_us |-> uncert_us(d.meta.radius_us, half_rtt(rtt_)),
                 radius_us |-> d.meta.radius_us])

\* main3.rs: parse_reply(host, nonce, buf, t_send_wall, rtt) -> GenResult<Probe>
parse_reply_main3(host, nonce_, buf, t_send_wall, rtt_) ==
    LET d == decode_reply(nonce_, buf)
        local_mid_est == t_send_wall + half_rtt(rtt_)
    IN  IF d.kind # "Ok" THEN d
        ELSE Ok([host |-> host,
                 rtt |-> rtt_,
                 offset |-> offset_us(mid_wall(d.meta.mid_us), local_mid_est),
                 uncert |-> uncert_us(d.meta.radius_us, half_rtt(rtt_)),
                 midpoint_us |-> d.meta.mid_us])

\* The parse_reply of the variant.
parse_reply_of(v, host, nonce_, buf, t_send_wall, rtt_) ==
    IF v = "lib" THEN parse_reply(host, nonce_, buf, t_send_wall, rtt_)
    ELSE parse_reply_main3(host, nonce_, buf, t_send_wall, rtt_)

\* The offset field of a measurement of either variant.
OffsetOf(v, m) == IF v = "lib" THEN m.offset_us ELSE m.offset
\* The uncertainty field of a measurement of either variant.
UncertOf(v, m) == IF v = "lib" THEN m.uncert_us ELSE m.uncert

-----------------------------------------------------------------------------
(* Inputs: what the environment (clock, network, beacons) can hand the code *)

\* Two 32-byte hashes.
Hashes == {Zeros(HashLen), [i \in 1..HashLen |-> i]}
Nonces == {pad_nonce(h) : h \in Hashes}

\* Sibling digests a beacon may put in PATH.
Siblings == {hash_leaf(<<7>>), hash_leaf(<<8>>)}
OtherSibling(d) == CHOOSE e \in Siblings : e # d
Paths == UNION {[1..k -> Siblings] : k \in 0..MaxPathLen}

OneSecond == 1000 * 1000 * NsPerUs
\* SystemTime::now(): nanosecond instants, on and off whole microseconds.
WallTimes == {OneSecond + 400 * k : k \in 0..MaxTick}
\* Instant::elapsed(): round trips around 100 ms, with odd microsecond counts.
Rtts == {100 * 1000 * NsPerUs + 1500 * k : k \in 0..MaxTick}
\* MIDP values (microseconds since the epoch) around send + 50 ms.
Mids == {(OneSecond \div NsPerUs) + 50 * 1000 - 1 + k : k \in 0..MaxTick}
\* RADI values (microseconds).
Radii == {1000, 5}

\* A reply an honest beacon builds for nonce n.
GoodReply(n, idx, path, mid, rad) ==
    [outerOk |-> TRUE, tags |-> OuterTags, srepOk |-> TRUE, stags |-> SrepTags,
     INDX |-> to_le_bytes(idx, U32Bytes),
     PATH |-> path,
     RADI |-> to_le_bytes(rad, U32Bytes),
     MIDP |-> to_le_bytes(mid, U64Bytes),
     ROOT |-> root_from_paths(idx, n, path)]

\* r with the sibling digest at position k of PATH replaced by another digest.
CorruptPath(r, k) == [r EXCEPT !.PATH[k] = OtherSibling(r.PATH[k])]
\* r claiming a root that is not the recomputed one.
WrongRoot(r) == [r EXCEPT !.ROOT = hash_leaf(<<9>>)]
\* r without a tag.
DropOuter(r, t) == [r EXCEPT !.tags = @ \ {t}]
DropSrep(r, t) == [r EXCEPT !.stags = @ \ {t}]
\* r with a fixed-width field one byte short / one byte long.
Shorten(r, f) == [r EXCEPT ![f] = SubSeq(@, 1, Len(@) - 1)]
Lengthen(r, f) == [r EXCEPT ![f] = @ \o <<1>>]
\* r whose outer / nested message does not decode.
BadOuter(r) == [r EXCEPT !.outerOk = FALSE]
BadSrep(r) == [r EXCEPT !.srepOk = FALSE]

FixedFields == {"INDX", "RADI", "MIDP"}

\* The ways a reply reaches parse_reply damaged.
Damages ==
    {<<"corrupt", k>> : k \in 1..MaxPathLen}
    \cup {<<"root", 0>>, <<"outer", 0>>, <<"srep", 0>>}
    \cup {<<"drop", t>> : t \in OuterTags \cup SrepTags}
    \cup {<<"short", f>> : f \in FixedFields}
    \cup {<<"long", f>> : f \in FixedFields}

\* r damaged the way dmg says (a position past the end of PATH damages nothing).
Damage(r, dmg) ==
    CASE dmg[1] = "corrupt" -> IF dmg[2] <= Len(r.PATH) THEN CorruptPath(r, dmg[2]) ELSE r
      [] dmg[1] = "root" -> WrongRoot(r)
      [] dmg[1] = "outer" -> BadOuter(r)
      [] dmg[1] = "srep" -> BadSrep(r)
      [] dmg[1] = "drop" -> IF dmg[2] \in OuterTags THEN DropOuter(r, dmg[2])
                            ELSE DropSrep(r, dmg[2])
      [] dmg[1] = "short" -> Shorten(r, dmg[2])
      [] dmg[1] = "long" -> Lengthen(r, dmg[2])

\* The concurrent model draws from the ends of the grids.
NetWallTimes == {OneSecond, OneSecond + 400 * MaxTick}
NetRtts == {100 * 1000 * NsPerUs, 100 * 1000 * NsPerUs + 1500 * MaxTick}
LongestPath == [k \in 1..MaxPathLen |-> hash_leaf(<<7>>)]
OtherNonce(n) == CHOOSE m \in Nonces : m # n

\* The datagrams the network delivers in the concurrent model: two honest
\* replies, an honest reply to another nonce, and damaged ones.
NetReplies(n) ==
    LET mid == (OneSecond \div NsPerUs) + 50 * 1000
        g == GoodReply(n, MaxIdx, LongestPath, mid, 5)
    IN  {g, GoodReply(n, 0, <<>>, mid + 1, 1000),
         GoodReply(OtherNonce(n), MaxIdx, LongestPath, mid, 5),
         CorruptPath(g, 1), DropSrep(g, "ROOT"), BadOuter(g)}

\* Well-formedness of a reply: every required tag present with its exact width.
HasAllTags(r) == r.tags = OuterTags /\ r.stags = SrepTags
ExactWidths(r) ==
    Len(r.INDX) = U32Bytes /\ Len(r.RADI) = U32Bytes /\ Len(r.MIDP) = U64Bytes
Decodes(r) == r.outerOk /\ r.srepOk
\* The root recomputed from (nonce, INDX, PATH) of a reply that has the tags.
RecomputedRoot(n, r) ==
    root_from_paths(from_le_bytes(SubSeq(r.INDX, 1, U32Bytes)), n, r.PATH)

-----------------------------------------------------------------------------
(* The harness of parse_reply: one call on arguments drawn by Init *)

NoReply == [outerOk |-> FALSE, tags |-> {}, srepOk |-> FALSE, stags |-> {},
            INDX |-> <<>>, PATH |-> <<>>, RADI |-> <<>>, MIDP |-> <<>>, ROOT |-> <<>>]

NoArgs == [v |-> "lib", host |-> "", nonce |-> <<>>, buf |-> NoReply,
           t_send_wall |-> 0, rtt |-> 0]

\* The harnesses, not running.
ParseIdle == pPc = "idle" /\ pIn = NoArgs /\ pOut = None
AggIdle == aPc = "idle" /\ aIn = NoArgs /\ aOut = None
BuildIdle ==
    /\ bPc = [i \in Probes |-> "idle"]
    /\ bHash = <<>>
    /\ bOut = [i \in Probes |-> <<>>]

\* The coordinator and its probes, not running.
CoordIdle ==
    /\ variant = "lib"
    /\ nonce = <<>>
    /\ mainPc = "off"
    /\ mainRes = None
    /\ pc = [i \in Probes |-> "unspawned"]
    /\ res = [i \in Probes |-> None]
    /\ gateCount = 0
    /\ gateGen = 0
    /\ localGen = [t \in Threads |-> 0]
    /\ arrived = [t \in Threads |-> FALSE]
    /\ sendCount = [i \in Probes |-> 0]
    /\ recvCount = [i \in Probes |-> 0]
    /\ tSend = [i \in Probes |-> 0]
    /\ rtt = [i \in Probes |-> 0]
    /\ reply = [i \in Probes |-> NoReply]

\* The arguments of one call: an honest reply to the query's nonce or to
\* another one, at every send instant and round trip of the grids, or a
\* damaged reply.
InitParse ==
    /\ CoordIdle
    /\ AggIdle
    /\ BuildIdle
    /\ pPc = "call"
    /\ pOut = None
    /\ \E v \in {"lib", "main3"}, n \in Nonces, idx \in 0..MaxIdx, path \in Paths :
        \/ \E m \in Nonces, mid \in Mids, rad \in Radii, t \in WallTimes, d \in Rtts :
               pIn = [v |-> v, host |-> Hosts[1], nonce |-> n,
                      buf |-> GoodReply(m, idx, path, mid, rad),
                      t_send_wall |-> t, rtt |-> d]
        \/ \E dmg \in Damages :
               pIn = [v |-> v, host |-> Hosts[1], nonce |-> n,
                      buf |-> Damage(GoodReply(n, idx, path, OneSecond \div NsPerUs, 5),
                                     dmg),
                      t_send_wall |-> OneSecond, rtt |-> 100 * 1000 * NsPerUs]

\* parse_reply(&host, &nonce, &buf[..len], t_send_wall, rtt)
ParseCall ==
    /\ pPc = "call"
    /\ pOut' = parse_reply_of(pIn.v, pIn.host, pIn.nonce, pIn.buf, pIn.t_send_wall,
                              pIn.rtt)
    /\ pPc' = "done"
    /\ UNCHANGED <<pIn, coordVars, aggVars, buildVars>>

NextParse == ParseCall

SpecParse == InitParse /\ [][NextParse]_vars

-----------------------------------------------------------------------------
(* get_timestamp_custom (lib.rs) / main (main3.rs) and the two probe threads *)

Init ==
    /\ variant \in {"lib", "main3"}
    /\ nonce \in Nonces
    /\ mainPc = "spawn1"
    /\ mainRes = None
    /\ pc = [i \in Probes |-> "unspawned"]
    /\ res = [i \in Probes |-> None]
    /\ gateCount = 0
    /\ gateGen = 0
    /\ localGen = [t \in Threads |-> 0]
    /\ arrived = [t \in Threads |-> FALSE]
    /\ sendCount = [i \in Probes |-> 0]
    /\ recvCount = [i \in Probes |-> 0]
    /\ tSend = [i \in Probes |-> 0]
    /\ rtt = [i \in Probes |-> 0]
    /\ reply = [i \in Probes |-> NoReply]
    /\ ParseIdle
    /\ AggIdle
    /\ BuildIdle

\* Barrier::wait, first half: take the lock, read the generation, count the
\* arrival; the last of GateSize arrivals resets the count and starts a new
\* generation (notify_all), the others wait for the generation to change.
BarrierArrive(t) ==
    /\ arrived' = [arrived EXCEPT ![t] = TRUE]
    /\ localGen' = [localGen EXCEPT ![t] = gateGen]
    /\ IF gateCount + 1 < GateSize
       THEN gateCount' = gateCount + 1 /\ gateGen' = gateGen
       ELSE gateCount' = 0 /\ gateGen' = gateGen + 1

\* Whether the arriving thread is the one that releases the barrier.
BarrierLeader == gateCount + 1 >= GateSize

\* Barrier::wait, second half: a waiter leaves once the generation changed.
BarrierOpen(t) == localGen[t] # gateGen

\* let h1 = spawn_probe(hosts[0]..); let h2 = spawn_probe(hosts[1]..)
SpawnProbe(i) ==
    /\ mainPc = (IF i = 1 THEN "spawn1" ELSE "spawn2")
    /\ pc[i] = "unspawned"
    /\ pc' = [pc EXCEPT ![i] = "build"]
    /\ mainPc' = (IF i = 1 THEN "spawn2" ELSE "gate")
    /\ UNCHANGED <<variant, nonce, mainRes, res, gateCount, gateGen, localGen, arrived,
                   sendCount, recvCount, tSend, rtt, reply, parseVars,
                   aggVars, buildVars>>

\* gate.wait() of the coordinator
MainGateWait ==
    /\ mainPc = "gate"
    /\ BarrierArrive(0)
    /\ mainPc' = (IF BarrierLeader THEN "join1" ELSE "blocked")
    /\ UNCHANGED <<variant, nonce, mainRes, pc, res, sendCount, recvCount, tSend, rtt,
                   reply, parseVars,
                   aggVars, buildVars>>

MainGateLeave ==
    /\ mainPc = "blocked"
    /\ BarrierOpen(0)
    /\ mainPc' = "join1"
    /\ UNCHANGED <<variant, nonce, mainRes, pc, res, gateCount, gateGen, localGen,
                   arrived, sendCount, recvCount, tSend, rtt, reply, parseVars,
                   aggVars, buildVars>>

\* lib.rs: h.join().map_err(|_| TimestampError::Join)??
\* main3.rs: t.join().unwrap()?
\* Ok(m): the coordinator goes on with m; anything else is what it ends with.
join_outcome(v, r) ==
    IF r.kind = "Panic"
    THEN (IF v = "lib" THEN ErrJoin ELSE Panic("unwrap on Err"))
    ELSE r

\* sys_to_us: t.duration_since(UNIX_EPOCH).unwrap().as_micros() as u64
sys_to_us(t) == t \div NsPerUs

\* The difference as it comes, without .abs().
Signed(x) == x

Abs(x) == IF x < 0 THEN -x ELSE x
Max(x, y) == IF x >= y THEN x ELSE y

\* The aggregation that moves the winning estimate by its beacon's offset.
timestamp_response_adjusted(p1, p2) ==
    LET first == IF p1.true_time <= p2.true_time THEN p1 ELSE p2
    IN  [timestamp |-> sys_to_us(first.true_time) + first.offset_us,
         beacons |-> <<p1, p2>>,
         drift_us |-> Abs(p1.offset_us - p2.offset_us)]

\* The aggregation with the comparison turned around: the later true_time wins.
timestamp_response_later(p1, p2) ==
    LET median_st == IF p1.true_time >= p2.true_time THEN p1.true_time
                     ELSE p2.true_time
    IN  [timestamp |-> sys_to_us(median_st),
         beacons |-> <<p1, p2>>,
         drift_us |-> Abs(p1.offset_us - p2.offset_us)]

\* lib.rs lines 98-114: median-of-2 and drift.
\* (input_hash, the hex rendering of the hash, is not part of the model.)
timestamp_response(p1, p2) ==
    LET median_st == IF p1.true_time <= p2.true_time THEN p1.true_time
                     ELSE p2.true_time
    IN  [timestamp |-> sys_to_us(median_st),
         beacons |-> <<p1, p2>>,
         drift_us |-> Abs(p1.offset_us - p2.offset_us)]

\* main3.rs lines 58-70: what main prints.
printed_main3(p1, p2) ==
    [beacons |-> <<p1, p2>>,
     drift |-> Abs(p1.offset - p2.offset),
     uncert |-> Max(p1.uncert, p2.uncert)]

finish(v, p1, p2) ==
    IF v = "lib" THEN Ok(timestamp_response(p1, p2)) ELSE Ok(printed_main3(p1, p2))

\* let p1 = h1.join()...; an Err or a panic of probe 1 ends the call here.
Join1 ==
    /\ mainPc = "join1"
    /\ pc[1] = "done"
    /\ LET o == join_outcome(variant, res[1])
       IN  IF o.kind = "Ok"
           THEN mainPc' = "join2" /\ mainRes' = mainRes
           ELSE mainPc' = "returned" /\ mainRes' = o
    /\ UNCHANGED <<variant, nonce, pc, res, gateCount, gateGen, localGen, arrived,
                   sendCount, recvCount, tSend, rtt, reply, parseVars,
                   aggVars, buildVars>>

\* A coordinator that settles for the surviving beacon when probe 2 failed.
join2_survivor(v, r1, r2) ==
    IF join_outcome(v, r2).kind = "Ok" THEN finish(v, r1.meta, r2.meta)
    ELSE finish(v, r1.meta, r1.meta)

\* What the call ends with once probe 1 gave p1 = r1.meta and probe 2 ended with r2.
join2_result(v, r1, r2) ==
    LET o == join_outcome(v, r2)
    IN  IF o.kind = "Ok" THEN finish(v, r1.meta, o.meta) ELSE o

\* let p2 = h2.join()...; then the aggregation and the return.
Join2 ==
    /\ mainPc = "join2"
    /\ pc[2] = "done"
    /\ mainRes' = join2_result(variant, res[1], res[2])
    /\ mainPc' = "returned"
    /\ UNCHANGED <<variant, nonce, pc, res, gateCount, gateGen, localGen, arrived,
                   sendCount, recvCount, tSend, rtt, reply, parseVars,
                   aggVars, buildVars>>

\* The probe thread ends with value r.
ThreadEnds(i, r) ==
    /\ pc' = [pc EXCEPT ![i] = "done"]
    /\ res' = [res EXCEPT ![i] = r]

\* let packet = build_packet(&nonce)?  (cannot fail for a 64-byte nonce)
BuildPacket(i) ==
    /\ pc[i] = "build"
    /\ pc' = [pc EXCEPT ![i] = "bind"]
    /\ UNCHANGED <<variant, nonce, mainPc, mainRes, res, gateCount, gateGen, localGen,
                   arrived, sendCount, recvCount, tSend, rtt, reply, parseVars,
                   aggVars, buildVars>>

\* let sock = UdpSocket::bind("0.0.0.0:0")?
Bind(i) ==
    /\ pc[i] = "bind"
    /\ \/ pc' = [pc EXCEPT ![i] = "set_timeout"] /\ res' = res
       \/ ThreadEnds(i, ErrIo("Os"))
    /\ UNCHANGED <<variant, nonce, mainPc, mainRes, gateCount, gateGen, localGen,
                   arrived, sendCount, recvCount, tSend, rtt, reply, parseVars,
                   aggVars, buildVars>>

\* sock.set_read_timeout(Some(Duration::from_secs(3)))?
SetReadTimeout(i) ==
    /\ pc[i] = "set_timeout"
    /\ \/ pc' = [pc EXCEPT ![i] = "gate"] /\ res' = res
       \/ ThreadEnds(i, ErrIo("Os"))
    /\ UNCHANGED <<variant, nonce, mainPc, mainRes, gateCount, gateGen, localGen,
                   arrived, sendCount, recvCount, tSend, rtt, reply, parseVars,
                   aggVars, buildVars>>

\* gate.wait() of a probe
ProbeGateWait(i) ==
    /\ pc[i] = "gate"
    /\ BarrierArrive(i)
    /\ pc' = [pc EXCEPT ![i] = IF BarrierLeader THEN "send" ELSE "blocked"]
    /\ UNCHANGED <<variant, nonce, mainPc, mainRes, res, sendCount, recvCount, tSend,
                   rtt, reply, parseVars,
                   aggVars, buildVars>>

ProbeGateLeave(i) ==
    /\ pc[i] = "blocked"
    /\ BarrierOpen(i)
    /\ pc' = [pc EXCEPT ![i] = "send"]
    /\ UNCHANGED <<variant, nonce, mainPc, mainRes, res, gateCount, gateGen, localGen,
                   arrived, sendCount, recvCount, tSend, rtt, reply, parseVars,
                   aggVars, buildVars>>

\* t_send_wall = SystemTime::now(); t_send_inst = Instant::now();
\* sock.send_to(&packet, &host)?
Send(i) ==
    /\ pc[i] = "send"
    /\ \E t \in NetWallTimes :
        /\ tSend' = [tSend EXCEPT ![i] = t]
        /\ \/ /\ sendCount' = [sendCount EXCEPT ![i] = @ + 1]
              /\ pc' = [pc EXCEPT ![i] = "recv"]
              /\ res' = res
           \/ /\ ThreadEnds(i, ErrIo("Os"))
              /\ sendCount' = sendCount
    /\ UNCHANGED <<variant, nonce, mainPc, mainRes, gateCount, gateGen, localGen,
                   arrived, recvCount, rtt, reply, parseVars,
                   aggVars, buildVars>>

\* A receive that is called once more after a first timeout.
RecvRetrying(i) ==
    /\ pc[i] = "recv"
    /\ recvCount' = [recvCount EXCEPT ![i] = @ + 1]
    /\ \/ \E b \in NetReplies(nonce), d \in NetRtts :
              /\ reply' = [reply EXCEPT ![i] = b]
              /\ rtt' = [rtt EXCEPT ![i] = d]
              /\ pc' = [pc EXCEPT ![i] = "parse"]
              /\ res' = res
       \/ /\ IF recvCount[i] = 0 THEN UNCHANGED <<pc, res>>
             ELSE ThreadEnds(i, ErrIo("WouldBlock"))
          /\ UNCHANGED <<reply, rtt>>
       \/ /\ ThreadEnds(i, ErrIo("Os"))
          /\ UNCHANGED <<reply, rtt>>
    /\ UNCHANGED <<variant, nonce, mainPc, mainRes, gateCount, gateGen, localGen,
                   arrived, sendCount, tSend, parseVars,
                   aggVars, buildVars>>

\* let (len, _) = sock.recv_from(&mut buf)?; let rtt = t_send_inst.elapsed();
\* the receive ends with a datagram, with the 3 s timeout, or with a socket error.
Recv(i) ==
    /\ pc[i] = "recv"
    /\ recvCount' = [recvCount EXCEPT ![i] = @ + 1]
    /\ \/ \E b \in NetReplies(nonce), d \in NetRtts :
              /\ reply' = [reply EXCEPT ![i] = b]
              /\ rtt' = [rtt EXCEPT ![i] = d]
              /\ pc' = [pc EXCEPT ![i] = "parse"]
              /\ res' = res
       \/ /\ ThreadEnds(i, ErrIo("WouldBlock"))
          /\ UNCHANGED <<reply, rtt>>
       \/ /\ ThreadEnds(i, ErrIo("Os"))
          /\ UNCHANGED <<reply, rtt>>
    /\ UNCHANGED <<variant, nonce, mainPc, mainRes, gateCount, gateGen, localGen,
                   arrived, sendCount, tSend, parseVars,
                   aggVars, buildVars>>

\* parse_reply(&host, &nonce, &buf[..len], t_send_wall, rtt): the thread's value
Parse(i) ==
    /\ pc[i] = "parse"
    /\ ThreadEnds(i, parse_reply_of(variant, Hosts[i], nonce, reply[i], tSend[i], rtt[i]))
    /\ UNCHANGED <<variant, nonce, mainPc, mainRes, gateCount, gateGen, localGen,
                   arrived, sendCount, recvCount, tSend, rtt, reply, parseVars,
                   aggVars, buildVars>>

Next ==
    \/ \E i \in Probes : SpawnProbe(i)
    \/ MainGateWait
    \/ MainGateLeave
    \/ Join1
    \/ Join2
    \/ \E i \in Probes : BuildPacket(i)
    \/ \E i \in Probes : Bind(i)
    \/ \E i \in Probes : SetReadTimeout(i)
    \/ \E i \in Probes : ProbeGateWait(i)
    \/ \E i \in Probes : ProbeGateLeave(i)
    \/ \E i \in Probes : Send(i)
    \/ \E i \in Probes : Recv(i)
    \/ \E i \in Probes : Parse(i)

Spec == Init /\ [][Next]_vars

-----------------------------------------------------------------------------
(* main.rs (two beacons, two worker threads) and main2.rs (one beacon, no    *)
(* thread).  The variables of the coordinator are reused: in main2.rs the    *)
(* round trip runs in main itself, which is modelled as probe 1 run inline.  *)

\* host1 / host2 of main.rs; main2.rs uses the first as DEFAULT_HOST.
MainHosts == <<"roughtime.int08h.com:2002", "time.cloudflare.com:2003">>

\* main.rs lines 132-150 / main2.rs lines 55-66: decoding in program order and
\* the comparison of the recomputed root with ROOT, kept as a flag.
\* (wrap_err / format! errors are Box<dyn Error>; they are rendered as Io "Other".)
probe_once_parse(host, nonce_, buf, rtt_) ==
    IF ~buf.outerOk THEN ErrIo("Other")
    ELSE IF "SREP" \notin buf.tags THEN Panic("unwrap on None")
    ELSE IF ~buf.srepOk THEN ErrIo("Other")
    ELSE IF "RADI" \notin buf.stags THEN Panic("unwrap on None")
    ELSE IF ~slice_ok(buf.RADI, U32Bytes) THEN Panic("slice index out of range")
    ELSE IF "MIDP" \notin buf.stags THEN Panic("unwrap on None")
    ELSE IF ~slice_ok(buf.MIDP, U64Bytes) THEN Panic("slice index out of range")
    ELSE IF "INDX" \notin buf.tags THEN Panic("unwrap on None")
    ELSE IF ~slice_ok(buf.INDX, U32Bytes) THEN Panic("slice index out of range")
    ELSE IF "PATH" \notin buf.tags THEN Panic("unwrap on None")
    ELSE IF "ROOT" \notin buf.stags THEN Panic("unwrap on None")
    ELSE Ok([host |-> host,
             rtt |-> rtt_,
             midpoint_us |-> from_le_bytes(slice_to(buf.MIDP, U64Bytes)),
             radius_us |-> from_le_bytes(slice_to(buf.RADI, U32Bytes)),
             merkle_ok |->
                 root_from_paths(from_le_bytes(slice_to(buf.INDX, U32Bytes)),
                                 nonce_, buf.PATH) = buf.ROOT])

InitMain ==
    /\ variant \in {"main", "main2"}
    /\ nonce \in Nonces
    /\ mainPc = (IF variant = "main" THEN "spawn1" ELSE "inline")
    /\ mainRes = None
    /\ pc = [i \in Probes |-> IF variant = "main2" /\ i = 1 THEN "build"
                              ELSE "unspawned"]
    /\ res = [i \in Probes |-> None]
    /\ gateCount = 0
    /\ gateGen = 0
    /\ localGen = [t \in Threads |-> 0]
    /\ arrived = [t \in Threads |-> FALSE]
    /\ sendCount = [i \in Probes |-> 0]
    /\ recvCount = [i \in Probes |-> 0]
    /\ tSend = [i \in Probes |-> 0]
    /\ rtt = [i \in Probes |-> 0]
    /\ reply = [i \in Probes |-> NoReply]
    /\ ParseIdle
    /\ AggIdle
    /\ BuildIdle

\* probe_once ends with r.  main.rs: an Ok or an Err is kept in `res` and the
\* worker goes on to gate.wait(); a panic unwinds the worker at once.
\* main2.rs: main ends (or goes on to print) with r.
ProbeOnceEnds(i, r) ==
    /\ res' = [res EXCEPT ![i] = r]
    /\ pc' = [pc EXCEPT ![i] = IF variant = "main" /\ r.kind # "Panic" THEN "gate"
                                ELSE "done"]

\* req.add_field(..)?; ...; req.encode()?  (cannot fail for a 64-byte nonce)
ProbeOnceBuild(i) ==
    /\ pc[i] = "build"
    /\ pc' = [pc EXCEPT ![i] = "bind"]
    /\ UNCHANGED <<variant, nonce, mainPc, mainRes, res, gateCount, gateGen, localGen,
                   arrived, sendCount, recvCount, tSend, rtt, reply, parseVars,
                   aggVars, buildVars>>

\* let sock = UdpSocket::bind("0.0.0.0:0")?
ProbeOnceBind(i) ==
    /\ pc[i] = "bind"
    /\ \/ pc' = [pc EXCEPT ![i] = "set_timeout"] /\ res' = res
       \/ ProbeOnceEnds(i, ErrIo("Os"))
    /\ UNCHANGED <<variant, nonce, mainPc, mainRes, gateCount, gateGen, localGen,
                   arrived, sendCount, recvCount, tSend, rtt, reply, parseVars,
                   aggVars, buildVars>>

\* sock.set_read_timeout(Some(Duration::from_secs(3)))?; the send follows at once
ProbeOnceSetReadTimeout(i) ==
    /\ pc[i] = "set_timeout"
    /\ \/ pc' = [pc EXCEPT ![i] = "send"] /\ res' = res
       \/ ProbeOnceEnds(i, ErrIo("Os"))
    /\ UNCHANGED <<variant, nonce, mainPc, mainRes, gateCount, gateGen, localGen,
                   arrived, sendCount, recvCount, tSend, rtt, reply, parseVars,
                   aggVars, buildVars>>

\* let t0 = Instant::now(); sock.send_to(&bytes, host)?
ProbeOnceSend(i) ==
    /\ pc[i] = "send"
    /\ \E t \in NetWallTimes :
        /\ tSend' = [tSend EXCEPT ![i] = t]
        /\ \/ /\ sendCount' = [sendCount EXCEPT ![i] = @ + 1]
              /\ pc' = [pc EXCEPT ![i] = "recv"]
              /\ res' = res
           \/ /\ ProbeOnceEnds(i, ErrIo("Os"))
              /\ sendCount' = sendCount
    /\ UNCHANGED <<variant, nonce, mainPc, mainRes, gateCount, gateGen, localGen,
                   arrived, recvCount, rtt, reply, parseVars, aggVars, buildVars>>

\* let (len, _) = sock.recv_from(&mut buf)?; let rtt = t0.elapsed()
ProbeOnceRecv(i) ==
    /\ pc[i] = "recv"
    /\ recvCount' = [recvCount EXCEPT ![i] = @ + 1]
    /\ \/ \E b \in NetReplies(nonce), d \in NetRtts :
              /\ reply' = [reply EXCEPT ![i] = b]
              /\ rtt' = [rtt EXCEPT ![i] = d]
              /\ pc' = [pc EXCEPT ![i] = "parse"]
              /\ res' = res
       \/ /\ ProbeOnceEnds(i, ErrIo("WouldBlock"))
          /\ UNCHANGED <<reply, rtt>>
       \/ /\ ProbeOnceEnds(i, ErrIo("Os"))
          /\ UNCHANGED <<reply, rtt>>
    /\ UNCHANGED <<variant, nonce, mainPc, mainRes, gateCount, gateGen, localGen,
                   arrived, sendCount, tSend, parseVars, aggVars, buildVars>>

\* 3 - parse & verify, and Ok(ProbeResult { .. })
ProbeOnceParse(i) ==
    /\ pc[i] = "parse"
    /\ ProbeOnceEnds(i, probe_once_parse(MainHosts[i], nonce, reply[i], rtt[i]))
    /\ UNCHANGED <<variant, nonce, mainPc, mainRes, gateCount, gateGen, localGen,
                   arrived, sendCount, recvCount, tSend, rtt, reply, parseVars,
                   aggVars, buildVars>>

\* main.rs line 101: gate.wait() of a worker, after probe_once; then `res` is
\* the thread's value.
WorkerGateWait(i) ==
    /\ pc[i] = "gate"
    /\ BarrierArrive(i)
    /\ pc' = [pc EXCEPT ![i] = IF BarrierLeader THEN "done" ELSE "blocked"]
    /\ UNCHANGED <<variant, nonce, mainPc, mainRes, res, sendCount, recvCount, tSend,
                   rtt, reply, parseVars, aggVars, buildVars>>

WorkerGateLeave(i) ==
    /\ pc[i] = "blocked"
    /\ BarrierOpen(i)
    /\ pc' = [pc EXCEPT ![i] = "done"]
    /\ UNCHANGED <<variant, nonce, mainPc, mainRes, res, gateCount, gateGen, localGen,
                   arrived, sendCount, recvCount, tSend, rtt, reply, parseVars,
                   aggVars, buildVars>>

\* h.join().expect("thread-N panic")?: a worker's panic panics main, its Err
\* ends main, its Ok(r) lets main go on with r.
main_join_outcome(r) == IF r.kind = "Panic" THEN Panic("thread panic") ELSE r

\* main.rs lines 67-85: print_result of both, then the drift of the midpoints.
printed_main(r1, r2) ==
    [printed |-> <<r1, r2>>,
     drift_us |-> IF r1.midpoint_us >= r2.midpoint_us
                  THEN r1.midpoint_us - r2.midpoint_us
                  ELSE r2.midpoint_us - r1.midpoint_us]

\* main2.rs lines 76-84: the one result printed.
printed_main2(r) == [printed |-> <<r>>, drift_us |-> 0]

\* let r1 = h1.join().expect("thread-1 panic")?
MainJoin1 ==
    /\ variant = "main"
    /\ mainPc = "join1"
    /\ pc[1] = "done"
    /\ LET o == main_join_outcome(res[1])
       IN  IF o.kind = "Ok"
           THEN mainPc' = "join2" /\ mainRes' = mainRes
           ELSE mainPc' = "returned" /\ mainRes' = o
    /\ UNCHANGED <<variant, nonce, pc, res, gateCount, gateGen, localGen, arrived,
                   sendCount, recvCount, tSend, rtt, reply, parseVars,
                   aggVars, buildVars>>

\* let r2 = h2.join().expect("thread-2 panic")?; then the printing and Ok(())
MainJoin2 ==
    /\ variant = "main"
    /\ mainPc = "join2"
    /\ pc[2] = "done"
    /\ LET o == main_join_outcome(res[2])
       IN  mainRes' = IF o.kind = "Ok" THEN Ok(printed_main(res[1].meta, o.meta))
                      ELSE o
    /\ mainPc' = "returned"
    /\ UNCHANGED <<variant, nonce, pc, res, gateCount, gateGen, localGen, arrived,
                   sendCount, recvCount, tSend, rtt, reply, parseVars,
                   aggVars, buildVars>>

\* main2.rs: main prints what it decoded and returns Ok(()), or ends with the
\* error or the panic of its round trip.
Main2Finish ==
    /\ variant = "main2"
    /\ mainPc = "inline"
    /\ pc[1] = "done"
    /\ mainRes' = IF res[1].kind = "Ok" THEN Ok(printed_main2(res[1].meta))
                  ELSE res[1]
    /\ mainPc' = "returned"
    /\ UNCHANGED <<variant, nonce, pc, res, gateCount, gateGen, localGen, arrived,
                   sendCount, recvCount, tSend, rtt, reply, parseVars,
                   aggVars, buildVars>>

NextMain ==
    \/ \E i \in Probes : SpawnProbe(i)
    \/ MainGateWait
    \/ MainGateLeave
    \/ MainJoin1
    \/ MainJoin2
    \/ Main2Finish
    \/ \E i \in Probes : ProbeOnceBuild(i)
    \/ \E i \in Probes : ProbeOnceBind(i)
    \/ \E i \in Probes : ProbeOnceSetReadTimeout(i)
    \/ \E i \in Probes : ProbeOnceSend(i)
    \/ \E i \in Probes : ProbeOnceRecv(i)
    \/ \E i \in Probes : ProbeOnceParse(i)
    \/ \E i \in Probes : WorkerGateWait(i)
    \/ \E i \in Probes : WorkerGateLeave(i)

SpecMain == InitMain /\ [][NextMain]_vars

-----------------------------------------------------------------------------
(* build_packet and the Roughtime wire format of RtMessage:                  *)
(*   num_tags (u32) | offsets (u32 each, one per tag after the first) |      *)
(*   tags (4 bytes each) | values, in tag order                              *)
(* all little-endian.  A message is the sequence of its (tag, value) fields. *)

\* The size of the request the comment of main.rs names ("1 024-byte").
MinRequestLength == 1024
\* Tag::NONC and Tag::PAD, as they are written on the wire.
TagNONC == <<78, 79, 78, 67>>
TagPAD == <<80, 65, 68, 255>>

\* RtMessage::with_capacity(2) / clear(): no fields.
EmptyMessage == <<>>
\* req.add_field(tag, value): tags are added in increasing order (NONC, PAD),
\* so the call cannot fail.
add_field(msg, tag, value) == Append(msg, [tag |-> tag, value |-> value])

RECURSIVE values_len(_)
\* Total length of the values of msg.
values_len(msg) ==
    IF msg = <<>> THEN 0 ELSE Len(Head(msg).value) + values_len(Tail(msg))

\* RtMessage::encoded_size
encoded_size(msg) ==
    IF msg = <<>> THEN U32Bytes
    ELSE U32Bytes + U32Bytes * (Len(msg) - 1) + U32Bytes * Len(msg) + values_len(msg)

\* req.calculate_padding_length(): what the message, its empty PAD field
\* included, lacks to MinRequestLength.
calculate_padding_length(msg) ==
    IF encoded_size(msg) >= MinRequestLength THEN 0
    ELSE MinRequestLength - encoded_size(msg)

RECURSIVE concat_tags(_)
concat_tags(msg) == IF msg = <<>> THEN <<>> ELSE Head(msg).tag \o concat_tags(Tail(msg))
RECURSIVE concat_values(_)
concat_values(msg) ==
    IF msg = <<>> THEN <<>> ELSE Head(msg).value \o concat_values(Tail(msg))
RECURSIVE encode_offsets(_, _)
\* The offsets of the values of fields k..Len(msg), for k >= 2.
encode_offsets(msg, k) ==
    IF k > Len(msg) THEN <<>>
    ELSE to_le_bytes(values_len(SubSeq(msg, 1, k - 1)), U32Bytes)
             \o encode_offsets(msg, k + 1)

\* req.encode()
encode(msg) ==
    to_le_bytes(Len(msg), U32Bytes) \o encode_offsets(msg, 2)
        \o concat_tags(msg) \o concat_values(msg)

\* RtMessage::from_bytes, for a message the header of which fits the bytes:
\* field k has the k-th tag and the bytes from its offset to the next one.
from_bytes(bytes) ==
    LET n == from_le_bytes(SubSeq(bytes, 1, U32Bytes))
        header == U32Bytes + U32Bytes * (n - 1) + U32Bytes * n
        offset(k) == IF k = 1 THEN 0
                     ELSE IF k > n THEN Len(bytes) - header
                     ELSE from_le_bytes(SubSeq(bytes, U32Bytes * (k - 1) + 1,
                                               U32Bytes * k))
        tag(k) == SubSeq(bytes, U32Bytes * (n + k - 1) + 1, U32Bytes * (n + k))
    IN  [k \in 1..n |->
            [tag |-> tag(k),
             value |-> SubSeq(bytes, header + offset(k) + 1, header + offset(k + 1))]]

\* msg.get_field(tag): the value of the field, <<"None">> when there is no such field.
get_field(msg, tag) ==
    IF \E k \in 1..Len(msg) : msg[k].tag = tag
    THEN msg[CHOOSE k \in 1..Len(msg) : msg[k].tag = tag].value
    ELSE <<"None">>

\* build_packet that encodes the message with the empty PAD field.
build_packet_unpadded(nonce_) ==
    encode(add_field(add_field(EmptyMessage, TagNONC, nonce_), TagPAD, <<>>))

\* build_packet(nonce): Ok(bytes)
build_packet(nonce_) ==
    LET req == add_field(add_field(EmptyMessage, TagNONC, nonce_), TagPAD, <<>>)
        pad == Zeros(calculate_padding_length(req))
    IN  encode(add_field(add_field(EmptyMessage, TagNONC, nonce_), TagPAD, pad))

\* 32-byte hashes: constant ones, ramps, and ones that end or begin with zeros.
BuildHashes ==
    {[i \in 1..HashLen |-> (a * i + c) % 256] :
        a \in {0, 1, 7, 255}, c \in {0, 1, 67, 78, 80, 128, 254, 255}}
    \cup {[i \in 1..HashLen |-> IF i <= k THEN 255 ELSE 0] : k \in {1, 16, 31}}
    \cup {[i \in 1..HashLen |-> IF i <= k THEN 0 ELSE 1] : k \in {1, 16, 31}}

InitBuild ==
    /\ CoordIdle
    /\ ParseIdle
    /\ AggIdle
    /\ bHash \in BuildHashes
    /\ bPc = [i \in Probes |-> "call"]
    /\ bOut = [i \in Probes |-> <<>>]

\* let packet = build_packet(&nonce)? of probe i, nonce = pad_nonce(hash)
BuildCall(i) ==
    /\ bPc[i] = "call"
    /\ bOut' = [bOut EXCEPT ![i] = build_packet(pad_nonce(bHash))]
    /\ bPc' = [bPc EXCEPT ![i] = "done"]
    /\ UNCHANGED <<bHash, coordVars, parseVars, aggVars>>

NextBuild == \E i \in Probes : BuildCall(i)

SpecBuild == InitBuild /\ [][NextBuild]_vars

-----------------------------------------------------------------------------
(* The harness of the aggregation: lib.rs lines 98-114 / main3.rs lines 58-70 *)
(* applied once to two measurements drawn by Init                             *)

\* Send instants of the two probes.
AggWallTimes == WallTimes
\* Round trips of 1 ms, 2 ms and 100 ms.
AggRtts == {1000 * NsPerUs, 2 * 1000 * NsPerUs, 100 * 1000 * NsPerUs}
\* MIDP values 5.5 ms, 6 ms, 6.5 ms and 50.5 ms after one second.
AggMids == {(OneSecond \div NsPerUs) + m : m \in {5500, 6000, 6500, 50500}}
\* RADI values of 0.5 ms and 1 ms.
AggRadii == {500, 1000}
\* The nonce of the query the measurements answer.
AggNonce == pad_nonce(Zeros(HashLen))

\* The measurement probe i yields for an honest reply (mid, rad) to a request
\* sent at t and answered after d.
Measured(v, i, t, d, mid, rad) ==
    parse_reply_of(v, Hosts[i], AggNonce, GoodReply(AggNonce, 0, <<>>, mid, rad),
                   t, d).meta

InitAgg ==
    /\ CoordIdle
    /\ ParseIdle
    /\ BuildIdle
    /\ aPc = "call"
    /\ aOut = None
    /\ \E v \in {"lib", "main3"} :
       \E t1 \in AggWallTimes, d1 \in AggRtts, mid1 \in AggMids, rad1 \in AggRadii :
       \E t2 \in AggWallTimes, d2 \in AggRtts, mid2 \in AggMids, rad2 \in AggRadii :
           aIn = [v |-> v,
                  t_send_wall |-> <<t1, t2>>,
                  rtt |-> <<d1, d2>>,
                  p |-> <<Measured(v, 1, t1, d1, mid1, rad1),
                          Measured(v, 2, t2, d2, mid2, rad2)>>]

\* The code after the two joins, on p1 = aIn.p[1] and p2 = aIn.p[2].
AggCall ==
    /\ aPc = "call"
    /\ aOut' = finish(aIn.v, aIn.p[1], aIn.p[2])
    /\ aPc' = "done"
    /\ UNCHANGED <<aIn, coordVars, parseVars, buildVars>>

NextAgg == AggCall

SpecAgg == InitAgg /\ [][NextAgg]_vars

-----------------------------------------------------------------------------
(* Two queries side by side: get_timestamp_custom run twice with the same    *)
(* send instants and round trips, the beacons answering each query with      *)
(* their own MIDP and RADI.  The variables of the aggregation harness are    *)
(* reused, one entry per query.                                              *)

Queries == {"a", "b"}
\* MIDP values 5.5 ms and 50.5 ms after one second.
TwinMids == {(OneSecond \div NsPerUs) + m : m \in {5500, 50500}}
TwinRadii == AggRadii

InitTwin ==
    /\ CoordIdle
    /\ ParseIdle
    /\ BuildIdle
    /\ aPc = [q \in Queries |-> "call"]
    /\ aOut = [q \in Queries |-> None]
    /\ \E t1 \in AggWallTimes, t2 \in AggWallTimes, d1 \in AggRtts, d2 \in AggRtts :
       \E mid \in [Queries -> TwinMids \X TwinMids],
          rad \in [Queries -> TwinRadii \X TwinRadii] :
           aIn = [v |-> "lib",
                  t_send_wall |-> <<t1, t2>>,
                  rtt |-> <<d1, d2>>,
                  mid |-> mid,
                  rad |-> rad]

\* Query q: both probes parse their verified reply (lib.rs:139), then the
\* aggregation and the return (lib.rs:98-114).
TwinQuery(q) ==
    /\ aPc[q] = "call"
    /\ aOut' = [aOut EXCEPT ![q] =
                   finish(aIn.v,
                          Measured(aIn.v, 1, aIn.t_send_wall[1], aIn.rtt[1],
                                   aIn.mid[q][1], aIn.rad[q][1]),
                          Measured(aIn.v, 2, aIn.t_send_wall[2], aIn.rtt[2],
                                   aIn.mid[q][2], aIn.rad[q][2]))]
    /\ aPc' = [aPc EXCEPT ![q] = "done"]
    /\ UNCHANGED <<aIn, coordVars, parseVars, buildVars>>

NextTwin == \E q \in Queries : TwinQuery(q)

SpecTwin == InitTwin /\ [][NextTwin]_vars

-----------------------------------------------------------------------------
(* Vocabulary of the properties *)

\* send_to has been called by probe i (t_send_wall is read right before it).
SendAttempted(i) == tSend[i] # 0
\* Probe i finished build_packet, bind and set_read_timeout and called gate.wait().
AtBarrier(i) ==
    arrived[i] /\ pc[i] \notin {"unspawned", "build", "bind", "set_timeout", "gate"}
Finished(i) == pc[i] = "done"
Failed(i) == Finished(i) /\ res[i].kind \in {"Err", "Panic"}
Returned == mainPc = "returned"

\* Probe i received a datagram that decodes, has every tag and whose recomputed
\* Merkle root is the ROOT of its signed response.
Verified(n, r) ==
    /\ Decodes(r)
    /\ HasAllTags(r)
    /\ Len(r.INDX) >= U32Bytes
    /\ RecomputedRoot(n, r) = r.ROOT

\* The stage at which a probe that ended with r failed.
FailStage(r) ==
    IF r.kind = "Err" /\ r.err.io \in {"WouldBlock", "Os"} THEN "network"
    ELSE IF r.kind = "Err" THEN "protocol"
    ELSE IF r.panic = "Merkle path invalid" THEN "verification"
    ELSE "protocol"

\* The hosts a TimestampError value names: no variant carries a host.
error_hosts(e) == {}
\* The stage a TimestampError value tells: Io(e) carries the io::Error of one
\* probe (a socket error or a wrapped decoding error), Join and NoProbes nothing.
error_stage(e) ==
    IF e.variant = "Io" /\ e.io \in {"WouldBlock", "Os"} THEN "network"
    ELSE IF e.variant = "Io" THEN "protocol"
    ELSE "unknown"

-----------------------------------------------------------------------------
(* Properties of the concurrent model (Spec) *)

\* C1: no probe calls send_to before both probes have finished packet
\* construction and socket setup and have arrived at the barrier (and the
\* coordinator has arrived too), in lib.rs and in main3.rs.
C1_NoSendBeforeBarrier ==
    \A i \in Probes :
        (SendAttempted(i) \/ pc[i] \in {"send", "recv", "parse"})
            => \A t \in Threads : arrived[t] /\ (t \in Probes => AtBarrier(t))

\* C1 witness: probe 1 has sent while probe 2, arrived, has not yet left the barrier.
C1_Witness == sendCount[1] = 1 /\ pc[2] = "blocked" /\ arrived[2]

\* C2: every call of get_timestamp_custom returns: as long as it has not
\* returned, some thread can take a step (the waits are bounded).
C2_CallReturns == variant = "lib" => (Returned \/ ENABLED Next)

\* C3: a probe ends with a measurement, and a returned result holds one, only
\* for a reply whose Merkle root recomputed from (nonce, INDX, PATH) is ROOT.
C3_NoMeasurementUnverified ==
    /\ \A i \in Probes : res[i].kind = "Ok" => Verified(nonce, reply[i])
    /\ (Returned /\ mainRes.kind = "Ok") =>
           \A i \in Probes : /\ mainRes.meta.beacons[i] = res[i].meta
                             /\ Verified(nonce, reply[i])

\* C3 witness: a probe was handed a reply whose PATH or nonce does not lead to
\* ROOT and has ended, and the other probe produced a measurement.
C3_Witness ==
    \E i, j \in Probes :
        /\ Finished(i) /\ Decodes(reply[i]) /\ HasAllTags(reply[i])
        /\ RecomputedRoot(nonce, reply[i]) # reply[i].ROOT
        /\ res[j].kind = "Ok"

\* C6: the call returns Ok only if both probes ended with a measurement of a
\* decoded, Merkle-verified reply, and the result holds exactly these two; if a
\* probe failed, what is returned is an Err.
C6_OkOnlyIfBothVerified ==
    (variant = "lib" /\ Returned) =>
        /\ mainRes.kind = "Ok" =>
               \A i \in Probes : /\ Finished(i) /\ res[i].kind = "Ok"
                                 /\ recvCount[i] = 1 /\ Verified(nonce, reply[i])
                                 /\ mainRes.meta.beacons[i] = res[i].meta
        /\ (\E i \in Probes : Failed(i)) => mainRes.kind = "Err"

\* C6 witness: probe 1 produced a measurement, probe 2 timed out, the call returned.
C6_Witness ==
    /\ variant = "lib" /\ Returned /\ res[1].kind = "Ok"
    /\ res[2] = ErrIo("WouldBlock") /\ pc[2] = "done"

\* C7: the error returned names every host that failed, with its stage.
C7_ErrorNamesHostsAndStages ==
    (variant = "lib" /\ Returned /\ mainRes.kind = "Err") =>
        \A i \in Probes : Failed(i) =>
            /\ Hosts[i] \in error_hosts(mainRes.err)
            /\ FailStage(res[i]) = error_stage(mainRes.err)

\* C8: the call returns a failure only after both probe threads have finished.
C8_FailureAfterAllFinished ==
    (variant = "lib" /\ Returned /\ mainRes.kind = "Err") =>
        \A i \in Probes : Finished(i)

\* C9: when a reply failed the Merkle check, what the call returns is the error
\* that stands for it (the caught panic, TimestampError::Join), whatever the
\* other probe did and whichever probe it was.
C9_VerificationFailureSurfaces ==
    (variant = "lib" /\ Returned) =>
        \A i \in Probes :
            (Finished(i) /\ res[i] = Panic("Merkle path invalid")) =>
                mainRes.kind = "Err" /\ mainRes.err.variant = "Join"

\* C17: a probe hands at most one datagram to send_to and calls recv_from at
\* most once, and a probe that has ended (with a timeout, an error or a
\* measurement) is never run again: it stays ended with the same value and
\* sends and receives nothing more.
C17_OneSendOneReceive ==
    [][\A i \in Probes :
          /\ sendCount'[i] <= 1
          /\ recvCount'[i] <= 1
          /\ Finished(i) =>
                 /\ pc'[i] = "done" /\ res'[i] = res[i]
                 /\ sendCount'[i] = sendCount[i] /\ recvCount'[i] = recvCount[i]]_vars

\* C17 witness: probe 1 sent its datagram, its only receive timed out, and the
\* call has returned.
C17_Witness ==
    /\ Returned /\ Finished(1) /\ res[1] = ErrIo("WouldBlock")
    /\ sendCount[1] = 1 /\ recvCount[1] = 1

\* C20: in lib.rs a reply that is malformed, lacks a tag or fails the Merkle
\* check never panics the caller's thread: the panic of the probe thread is
\* caught at join, and what get_timestamp_custom returns is
\* Err(TimestampError::Join).
C20_ProbePanicReturnsJoin ==
    variant = "lib" =>
        /\ mainRes.kind # "Panic"
        /\ Returned =>
               \A i \in Probes :
                   (Finished(i) /\ res[i].kind = "Panic") => mainRes = ErrJoin

-----------------------------------------------------------------------------
(* Properties of main.rs and main2.rs (SpecMain) *)

\* The barrier has released: all GateSize parties have arrived.
BarrierReleased == \A t \in Threads : arrived[t]
\* Probe i received a reply that has every tag and decodes, and whose root
\* recomputed from (nonce, INDX, PATH) differs from ROOT.
RootMismatch(i) ==
    /\ recvCount[i] = 1
    /\ Decodes(reply[i]) /\ HasAllTags(reply[i]) /\ ExactWidths(reply[i])
    /\ RecomputedRoot(nonce, reply[i]) # reply[i].ROOT

\* C18: in main.rs a worker calls send_to only after the barrier has released.
C18_MainSendsAfterBarrier ==
    variant = "main" =>
        \A i \in Probes :
            (SendAttempted(i) \/ pc[i] \in {"recv", "parse"}) => BarrierReleased

\* C19: in main.rs and main2.rs a reply whose recomputed root differs from
\* ROOT yields no ProbeResult, and nothing is printed for it: the mismatch is
\* not turned into a flag of a reported result.
C19_MismatchAbortsResult ==
    \A i \in Probes :
        (RootMismatch(i) /\ pc[i] \notin {"recv", "parse"}) =>
            /\ res[i].kind # "Ok"
            /\ Returned => mainRes.kind # "Ok"

-----------------------------------------------------------------------------
(* Properties of parse_reply (SpecParse) *)

ParseDone == pPc = "done"
\* MIDP of the reply, microseconds since the epoch.
MidOf(r) == from_le_bytes(SubSeq(r.MIDP, 1, U64Bytes))
\* Nanoseconds from the local estimate (send + half RTT, the half RTT in whole
\* microseconds) to the midpoint.
DiffNs(a) ==
    MidOf(a.buf) * NsPerUs
        - (a.t_send_wall + ((a.rtt \div NsPerUs) \div 2) * NsPerUs)
\* The reply has every tag at its exact width, decodes, and its PATH has one
\* sibling digest corrupted: restoring that digest makes the proof verify.
OneSiblingCorrupted(n, r) ==
    /\ Decodes(r) /\ HasAllTags(r) /\ ExactWidths(r)
    /\ RecomputedRoot(n, r) # r.ROOT
    /\ \E k \in 1..Len(r.PATH) : RecomputedRoot(n, CorruptPath(r, k)) = r.ROOT

\* C4: for a reply with one sibling digest of PATH corrupted, verification
\* ends with an error value: it neither panics nor yields a measurement.
C4_CorruptPathIsErrorValue ==
    (ParseDone /\ OneSiblingCorrupted(pIn.nonce, pIn.buf)) => pOut.kind = "Err"

\* C5: a reply that lacks a required tag, or carries INDX, RADI or MIDP with
\* a wrong length, yields a protocol error value.
C5_MalformedIsProtocolError ==
    (ParseDone /\ Decodes(pIn.buf)
        /\ (~HasAllTags(pIn.buf) \/ ~ExactWidths(pIn.buf))) =>
            pOut.kind = "Err" /\ error_stage(pOut.err) = "protocol"

\* C10 (original): the offset is exactly midpoint - (send + rtt/2), positive
\* exactly when the midpoint is later and negative exactly when it is earlier.
C10_OffsetExact ==
    (ParseDone /\ pOut.kind = "Ok") =>
        LET off == OffsetOf(pIn.v, pOut.meta)
            diff == DiffNs(pIn)
        IN  /\ off * NsPerUs = diff
            /\ off > 0 <=> diff > 0
            /\ off < 0 <=> diff < 0

\* C10 (amended): the offset is midpoint - (send + rtt/2) truncated toward zero
\* to whole microseconds: it is within one microsecond of the difference, never
\* of the opposite sign, exact when the difference is a whole number of
\* microseconds, and 0 for send = T, rtt = 100 ms, midpoint = T + 50 ms.
C10_OffsetTruncated ==
    (ParseDone /\ pOut.kind = "Ok") =>
        LET off == OffsetOf(pIn.v, pOut.meta)
            diff == DiffNs(pIn)
        IN  /\ Abs(off * NsPerUs - diff) < NsPerUs
            /\ off > 0 => diff > 0
            /\ off < 0 => diff < 0
            /\ diff % NsPerUs = 0 => off * NsPerUs = diff
            /\ (/\ pIn.t_send_wall = OneSecond
                /\ pIn.rtt = 100 * 1000 * NsPerUs
                /\ MidOf(pIn.buf) * NsPerUs = OneSecond + 50 * 1000 * NsPerUs) => off = 0

\* C10 witness: a verified reply whose midpoint is more than a microsecond
\* earlier than the local estimate, the send instant off the microsecond grid.
C10_Witness ==
    /\ ParseDone /\ pOut.kind = "Ok"
    /\ pIn.t_send_wall % NsPerUs # 0
    /\ OffsetOf(pIn.v, pOut.meta) < 0

\* RADI of the reply, microseconds.
RadiOf(r) == from_le_bytes(SubSeq(r.RADI, 1, U32Bytes))

\* C11: for every verified reply the combined uncertainty is the beacon's
\* radius plus half the round trip, in microseconds, the half round trip being
\* the one the offset uses; it is never below the radius, and it is 51 ms for
\* a round trip of 100 ms and a radius of 1 ms.
C11_UncertIsRadiusPlusHalfRtt ==
    (ParseDone /\ pOut.kind = "Ok") =>
        LET unc == UncertOf(pIn.v, pOut.meta)
            half_us == (pIn.rtt \div NsPerUs) \div 2
        IN  /\ unc = RadiOf(pIn.buf) + half_us
            /\ unc >= RadiOf(pIn.buf)
            /\ half_us * NsPerUs = half_rtt(pIn.rtt)
            /\ (pIn.rtt = 100 * 1000 * NsPerUs /\ RadiOf(pIn.buf) = 1000) =>
                   unc = 51 * 1000

\* C11 witness: a verified reply with radius 1 ms after a round trip of 100 ms.
C11_Witness ==
    /\ ParseDone /\ pOut.kind = "Ok"
    /\ pIn.rtt = 100 * 1000 * NsPerUs /\ RadiOf(pIn.buf) = 1000
    /\ UncertOf(pIn.v, pOut.meta) = 51 * 1000

-----------------------------------------------------------------------------
(* Properties of the aggregation (SpecAgg) *)

AggDone == aPc = "done"
\* Offset and combined uncertainty of measurement i, microseconds.
Off(i) == OffsetOf(aIn.v, aIn.p[i])
Unc(i) == UncertOf(aIn.v, aIn.p[i])
\* The drift a result reports.
DriftOf(v, out) == IF v = "lib" THEN out.drift_us ELSE out.drift
\* |offset_1 - offset_2|
OffsetGap == IF Off(1) >= Off(2) THEN Off(1) - Off(2) ELSE Off(2) - Off(1)
\* The two offsets differ by no more than their combined uncertainty.
Agree == OffsetGap <= Unc(1) + Unc(2)
\* The local times of the request, microseconds: the send instant of either
\* probe, or either probe's latency-adjusted estimate (send + half RTT).
LocalRequestTimes ==
    {sys_to_us(aIn.t_send_wall[i]) : i \in Probes}
        \cup {sys_to_us(aIn.t_send_wall[i] + half_rtt(aIn.rtt[i])) : i \in Probes}
\* The offsets the result's timestamp applies to a local request time.
AppliedOffsets == {aOut.meta.timestamp - l : l \in LocalRequestTimes}
\* The offsets of the measurements of least combined uncertainty.
LeastUncertainOffsets ==
    {Off(i) : i \in {j \in Probes : \A k \in Probes : Unc(j) <= Unc(k)}}

\* C12: when the two offsets differ by no more than their combined
\* uncertainty, the timestamp applies the mean of the two offsets to the local
\* request time, and the drift is their difference (offsets 5 ms and 5.5 ms,
\* uncertainty 2 ms each: 5.25 ms applied, drift 0.5 ms).
C12_AgreeingOffsetsAveraged ==
    (AggDone /\ aIn.v = "lib" /\ Agree) =>
        /\ \E a \in AppliedOffsets : 2 * a = Off(1) + Off(2)
        /\ DriftOf(aIn.v, aOut.meta) = OffsetGap

\* C13: when the two offsets differ by more than their combined uncertainty,
\* the timestamp applies the offset of the beacon with the smaller combined
\* uncertainty, and the drift is still reported (offsets 5 ms and 50 ms,
\* uncertainty 1 ms each: drift 45 ms).
C13_DisagreeingTakesLeastUncertain ==
    (AggDone /\ aIn.v = "lib" /\ ~Agree) =>
        /\ \E a \in AppliedOffsets : a \in LeastUncertainOffsets
        /\ DriftOf(aIn.v, aOut.meta) = OffsetGap

\* C14: every successful result reports as drift the absolute difference of
\* the two beacons' offsets, in lib.rs and in main3.rs.
C14_DriftIsOffsetGap ==
    AggDone =>
        /\ aOut.kind = "Ok"
        /\ DriftOf(aIn.v, aOut.meta) = OffsetGap
        /\ DriftOf(aIn.v, aOut.meta) >= 0
        /\ aOut.meta.beacons = aIn.p

\* C14 witness: a result for beacon 1 behind beacon 2 by 45 ms.
C14_Witness ==
    /\ AggDone /\ Off(1) = 5000 /\ Off(2) = 50000
    /\ DriftOf(aIn.v, aOut.meta) = 45000

\* C15: the timestamp of a successful result is a local request time plus the
\* offset the aggregation chose (an offset of one of the beacons, or their mean).
C15_TimestampIsLocalPlusOffset ==
    (AggDone /\ aIn.v = "lib") =>
        \E a \in AppliedOffsets :
            a \in {Off(1), Off(2)} \/ 2 * a = Off(1) + Off(2)

-----------------------------------------------------------------------------
(* Properties of build_packet (SpecBuild) *)

TrueTimeOf(i) == aIn.t_send_wall[i] + ((aIn.rtt[i] \div NsPerUs) \div 2) * NsPerUs

\* C21: on success the timestamp get_timestamp_custom returns is the
\* microseconds-since-epoch value of the earlier of the two beacons'
\* true_time values (send wall time + half the RTT), beacon 1's on a tie.
C21_TimestampIsEarlierTrueTime ==
    (AggDone /\ aIn.v = "lib") =>
        /\ \A i \in Probes : aOut.meta.beacons[i].true_time = TrueTimeOf(i)
        /\ TrueTimeOf(1) <= TrueTimeOf(2) =>
               aOut.meta.timestamp = TrueTimeOf(1) \div NsPerUs
        /\ TrueTimeOf(2) < TrueTimeOf(1) =>
               aOut.meta.timestamp = TrueTimeOf(2) \div NsPerUs

\* C21 witness: beacon 2's true_time is the earlier one, by whole
\* microseconds, and the timestamp is its value.
C21_Witness ==
    /\ AggDone /\ aIn.v = "lib"
    /\ TrueTimeOf(2) \div NsPerUs < TrueTimeOf(1) \div NsPerUs
    /\ aOut.meta.timestamp = TrueTimeOf(2) \div NsPerUs

-----------------------------------------------------------------------------
(* Properties of two queries side by side (SpecTwin) *)

TwinDone == \A q \in Queries : aPc[q] = "done" /\ aOut[q].kind = "Ok"

\* C22: two successful queries with the same send wall times and round trips
\* return the same timestamp whatever MIDP and RADI the beacons answered; of
\* the results only offset_us, uncert_us, radius_us and drift_us can differ.
C22_TimestampIgnoresBeaconTime ==
    TwinDone =>
        /\ aOut["a"].meta.timestamp = aOut["b"].meta.timestamp
        /\ \A i \in Probes :
               /\ aOut["a"].meta.beacons[i].host = aOut["b"].meta.beacons[i].host
               /\ aOut["a"].meta.beacons[i].rtt = aOut["b"].meta.beacons[i].rtt
               /\ aOut["a"].meta.beacons[i].true_time
                      = aOut["b"].meta.beacons[i].true_time

\* C22 witness: both queries returned, every beacon answered the two queries
\* with different MIDP and different RADI, and the drifts differ.
C22_Witness ==
    /\ TwinDone
    /\ \A i \in Probes : /\ aIn.mid["a"][i] # aIn.mid["b"][i]
                          /\ aIn.rad["a"][i] # aIn.rad["b"][i]
                          /\ aOut["a"].meta.beacons[i].offset_us
                                 # aOut["b"].meta.beacons[i].offset_us
    /\ aOut["a"].meta.drift_us # aOut["b"].meta.drift_us
    /\ aOut["a"].meta.timestamp = aOut["b"].meta.timestamp

=============================================================================
